---- MODULE Spec2Model ----
(***************************************************************************)
(* TabsOverflowDirective (src/src/app/directives/tabs-overflow.directive.ts,*)
(* the current version of the class, lines 371-804): the partition of a     *)
(* row of tabs into visible and hidden ones, recomputed by the debounced    *)
(* resize pipeline and by makeTabVisible.                                   *)
(*                                                                         *)
(* A tab (TabInfo) is represented by its index; allTabs, visibleTabs and    *)
(* hiddenTabs are sequences of indices.  The DOM is the environment: the    *)
(* number of tab links, the width of each, the width of the tab list        *)
(* container, and the display style the directive writes on each tab.       *)
(***************************************************************************)
EXTENDS Integers, Sequences, FiniteSets, TLC

\* ------------------------------------------------------------------ bounds
MaxTabs == 3
MaxTabWidth == 2
MaxUsable == 3
MaxSelections == 2

\* ------------------------------------------------------- program constants
menuButtonWidth == 56

VARIABLES
  numTabs,            \* DOM: number of .mat-mdc-tab-link elements
  tabWidth,           \* DOM: layout width of each tab link (index i at i+1)
  containerWidth,     \* DOM: width of the .mat-mdc-tab-list container
  displayNone,        \* DOM: element.style.display = 'none' of each tab link
  tabListContainer,   \* DOM: the tab header holds a .mat-mdc-tab-list element
  tabHeaderElement,   \* _tabHeaderElement !== null
  visibleTabIndices,
  maxVisibleTabs,
  isInitialized,
  isUpdating,         \* TRUE from updateState until its setTimeout(..., 50) runs
  pending,            \* the debounced pipeline holds an event
  prev,               \* the value distinctUntilChanged compares against
  hasOverflow,        \* signal
  allTabs,            \* signal
  visibleTabs,        \* signal
  hiddenTabs,         \* signal
  resizedSinceDetect, \* history: the container width differs from the one
                      \* the last detectOverflow() measured
  effectDirty,        \* TabsOverflowMenuDirective: the effect is to run (again)
  menuComponentRef,   \* TabsOverflowMenuDirective: menuComponentRef !== null
  menuInstances,      \* OverflowMenuComponent instances created and not destroyed
  menuSelection,      \* the index of the last tabSelected event (-1: none yet)
  menuVisibleTabs,    \* OverflowMenuComponent: visibleTabs signal
  menuHiddenTabs,     \* OverflowMenuComponent: hiddenTabs signal
  selectedIndices,    \* the indices a subscriber of tabSelected has received
  destroyed,          \* ngOnDestroy has run: destroy$ has emitted and completed
  frameRequested,     \* the timer(0) of ngAfterViewInit has fired
  subscribed          \* the subscription of setupOverflowDetection() is open

dom == <<numTabs, tabWidth, containerWidth, displayNone, tabListContainer>>
internal == <<tabHeaderElement, visibleTabIndices, maxVisibleTabs, isInitialized>>
timers == <<isUpdating>>
pipeline == <<pending, prev>>
signals == <<hasOverflow, allTabs, visibleTabs, hiddenTabs>>
component == <<menuVisibleTabs, menuHiddenTabs, selectedIndices>>
menu == <<effectDirty, menuComponentRef, menuInstances, menuSelection, component>>
lifecycle == <<destroyed, frameRequested, subscribed>>
vars == <<dom, internal, timers, pipeline, signals, resizedSinceDetect, menu,
          lifecycle>>

\* ----------------------------------------------------------------- helpers
Max(a, b) == IF a >= b THEN a ELSE b
Min(a, b) == IF a <= b THEN a ELSE b

Includes(s, x) == \E k \in 1..Len(s) : s[k] = x
Pop(s) == SubSeq(s, 1, Len(s) - 1)

TabWidths == 1..MaxTabWidth
\* container widths: 0 (nothing is usable: the usable width is negative) and
\* the widths that leave 1..MaxUsable past the menu button
ContainerWidths == {0} \cup {menuButtonWidth + u : u \in 1..MaxUsable}
\* arguments a caller can pass to makeTabVisible: every index of a tab, and
\* two indices of no tab (a negative one, and one past the last tab)
SelectedIndices(n) == (0 - 1)..n

\* tabElements.map((element, index) => ({label, index, element}))
TabInfos(n) == [k \in 1..n |-> k - 1]

\* allTabs.find(t => t.index === idx) !== undefined
FindTab(n, idx) == idx \in 0..(n - 1)

\* element.getBoundingClientRect().width: an element whose display is 'none'
\* has no layout box and measures 0
BoundingWidth(widths, dn, idx) == IF dn[idx + 1] THEN 0 ELSE widths[idx + 1]

\* the early result with hasOverflow left true
OverflowingEmptyState ==
  [hasOverflow |-> TRUE, allTabs |-> <<>>, visibleTabs |-> <<>>, hiddenTabs |-> <<>>]

\* the result of the early returns of detectOverflow()
EmptyState ==
  [hasOverflow |-> FALSE, allTabs |-> <<>>, visibleTabs |-> <<>>, hiddenTabs |-> <<>>]

\* -------------------------------------------------------- detectOverflow()
\* the first-run loop without its break: every tab that fits is counted
RECURSIVE FittingTabCountNoBreak(_, _, _, _)
FittingTabCountNoBreak(widths, availableWidth, i, cumulativeWidth) ==
  IF i >= Len(widths) THEN 0
  ELSE IF cumulativeWidth + widths[i + 1] <= availableWidth
       THEN 1 + FittingTabCountNoBreak(widths, availableWidth, i + 1,
                                       cumulativeWidth + widths[i + 1])
       ELSE FittingTabCountNoBreak(widths, availableWidth, i + 1, cumulativeWidth)

\* first run: the loop that counts the tabs fitting in natural order and
\* stops at the first tab that does not fit (every tab is displayed first, so
\* the widths measured are the layout widths)
RECURSIVE FittingTabCount(_, _, _, _)
FittingTabCount(widths, availableWidth, i, cumulativeWidth) ==
  IF i >= Len(widths) THEN 0
  ELSE IF cumulativeWidth + widths[i + 1] <= availableWidth
       THEN 1 + FittingTabCount(widths, availableWidth, i + 1,
                                cumulativeWidth + widths[i + 1])
       ELSE 0

\* later runs: the measured width of the tabs of visibleTabIndices that exist
RECURSIVE VisibleWidth(_, _, _)
VisibleWidth(widths, dn, vti) ==
  IF vti = <<>> THEN 0
  ELSE (IF FindTab(Len(widths), Head(vti))
        THEN BoundingWidth(widths, dn, Head(vti)) ELSE 0)
       + VisibleWidth(widths, dn, Tail(vti))

\* the eviction taking the oldest (leftmost) index instead of the last
RECURSIVE RemoveFromFront(_, _, _, _, _)
RemoveFromFront(widths, dn, availableWidth, vti, cumulativeWidth) ==
  IF cumulativeWidth > availableWidth /\ Len(vti) > 1
  THEN LET removedIndex == vti[1]
           removedWidth == IF FindTab(Len(widths), removedIndex)
                           THEN BoundingWidth(widths, dn, removedIndex) ELSE 0
       IN RemoveFromFront(widths, dn, availableWidth, Tail(vti),
                          cumulativeWidth - removedWidth)
  ELSE vti

\* the eviction without its lower bound of one index
RECURSIVE RemoveFromEndToEmpty(_, _, _, _, _)
RemoveFromEndToEmpty(widths, dn, availableWidth, vti, cumulativeWidth) ==
  IF cumulativeWidth > availableWidth /\ Len(vti) > 0
  THEN LET removedIndex == vti[Len(vti)]
           removedWidth == IF FindTab(Len(widths), removedIndex)
                           THEN BoundingWidth(widths, dn, removedIndex) ELSE 0
       IN RemoveFromEndToEmpty(widths, dn, availableWidth, Pop(vti),
                               cumulativeWidth - removedWidth)
  ELSE vti

\* the later run counting the fitting tabs from tab 0 again, as the first does
RecountFromStart(widths, dn, availableWidth, vti, cumulativeWidth) ==
  SubSeq(TabInfos(Len(widths)), 1,
         Min(Len(widths), Max(1, FittingTabCount(widths, availableWidth, 0, 0))))

\* later runs: pop from the right until the rest fits or one index is left
RECURSIVE RemoveFromEnd(_, _, _, _, _)
RemoveFromEnd(widths, dn, availableWidth, vti, cumulativeWidth) ==
  IF cumulativeWidth > availableWidth /\ Len(vti) > 1
  THEN LET removedIndex == vti[Len(vti)]
           removedWidth == IF FindTab(Len(widths), removedIndex)
                           THEN BoundingWidth(widths, dn, removedIndex) ELSE 0
       IN RemoveFromEnd(widths, dn, availableWidth, Pop(vti),
                        cumulativeWidth - removedWidth)
  ELSE vti

\* the split with hiddenTabs taken as allTabs.slice(maxVisibleTabs)
SplitTabsBySlice(n, vti, maxv, k, acc) ==
  [visibleTabs |-> SelectSeq(TabInfos(n), LAMBDA t : Includes(vti, t)),
   hiddenTabs |-> SubSeq(TabInfos(n), maxv + 1, n)]

\* the split with visibleTabs taken from visibleTabIndices in its own order
SplitTabsInPromotionOrder(n, vti, maxv, k, acc) ==
  [visibleTabs |-> vti,
   hiddenTabs |-> SelectSeq(TabInfos(n), LAMBDA t : ~Includes(vti, t))]

\* allTabs.forEach: a tab is visible when its index is in visibleTabIndices
\* and fewer than maxVisibleTabs tabs are visible so far; hidden otherwise
RECURSIVE SplitTabs(_, _, _, _, _)
SplitTabs(n, vti, maxv, k, acc) ==
  IF k >= n THEN acc
  ELSE IF Includes(vti, k) /\ Len(acc.visibleTabs) < maxv
       THEN SplitTabs(n, vti, maxv, k + 1,
                      [acc EXCEPT !.visibleTabs = Append(@, k)])
       ELSE SplitTabs(n, vti, maxv, k + 1,
                      [acc EXCEPT !.hiddenTabs = Append(@, k)])

\* the result of detectOverflow() and the fields and styles it leaves behind
DetectOverflow(header, list, n, widths, cw, dn, vti, maxv, initd) ==
  IF ~header \/ ~list \/ n = 0
  THEN [state |-> EmptyState, visibleTabIndices |-> vti, maxVisibleTabs |-> maxv,
        isInitialized |-> initd, displayNone |-> dn]
  ELSE
    LET availableWidth == cw - menuButtonWidth
        coldMax == Max(1, FittingTabCount(widths, availableWidth, 0, 0))
        warmVti == RemoveFromEnd(widths, dn, availableWidth, vti,
                                 VisibleWidth(widths, dn, vti))
        newVti == IF ~initd THEN SubSeq(TabInfos(n), 1, Min(coldMax, n)) ELSE warmVti
        newMax == IF ~initd THEN coldMax ELSE Max(1, Len(warmVti))
        split == SplitTabs(n, newVti, newMax, 0,
                           [visibleTabs |-> <<>>, hiddenTabs |-> <<>>])
    IN [state |-> [hasOverflow |-> n > newMax, allTabs |-> TabInfos(n),
                   visibleTabs |-> split.visibleTabs,
                   hiddenTabs |-> split.hiddenTabs],
        visibleTabIndices |-> newVti, maxVisibleTabs |-> newMax,
        isInitialized |-> TRUE,
        displayNone |-> [k \in 1..n |-> ~Includes(split.visibleTabs, k - 1)]]

\* ----------------------------------------------------------- updateState()
\* allTabs.set() is given a new array every time, so the effect of
\* TabsOverflowMenuDirective, which reads the signal, is marked to run again
UpdateState(state) ==
  /\ hasOverflow' = state.hasOverflow
  /\ allTabs' = state.allTabs
  /\ visibleTabs' = state.visibleTabs
  /\ hiddenTabs' = state.hiddenTabs
  /\ isUpdating' = TRUE
  /\ effectDirty' = TRUE
  /\ UNCHANGED <<menuComponentRef, menuInstances, menuSelection, component>>

\* the setTimeout callback of updateState.  While isUpdating is TRUE the
\* callback of the last updateState is still to run; the callbacks that run
\* while it is FALSE change nothing
ResetUpdating ==
  /\ isUpdating
  /\ isUpdating' = FALSE
  /\ UNCHANGED <<dom, internal, pipeline, signals, resizedSinceDetect, menu,
                 lifecycle>>

\* -------------------------------------------------------- makeTabVisible()
\* the eviction of the first (oldest) visible index instead of the last
ReplaceFirst(vti, selectedIndex) ==
  Append(IF Len(vti) > 0 THEN Tail(vti) ELSE vti, selectedIndex)

\* if (visibleTabIndices.length > 0) pop(); push(selectedIndex)
ReplaceLast(vti, selectedIndex) ==
  Append(IF Len(vti) > 0 THEN Pop(vti) ELSE vti, selectedIndex)

\* the early return never taken
NeverAlreadyVisible(vti, selectedIndex) == FALSE

\* if (this.visibleTabIndices.includes(selectedIndex)) { navigate; return }
AlreadyVisible(vti, selectedIndex) == Includes(vti, selectedIndex)

\* detectOverflow() measures unless it returns early
Measures == tabHeaderElement /\ tabListContainer /\ numTabs > 0

\* navigateToTab(selectedIndex) clicks the tab link and resets the scroll
\* position: neither touches the state modelled here
MakeTabVisible(selectedIndex) ==
  IF AlreadyVisible(visibleTabIndices, selectedIndex)
  THEN UNCHANGED vars
  ELSE
    \E d \in {DetectOverflow(tabHeaderElement, tabListContainer, numTabs, tabWidth,
                              containerWidth, displayNone,
                              ReplaceLast(visibleTabIndices, selectedIndex),
                              maxVisibleTabs, isInitialized)} :
       /\ visibleTabIndices' = d.visibleTabIndices
       /\ maxVisibleTabs' = d.maxVisibleTabs
       /\ isInitialized' = d.isInitialized
       /\ displayNone' = d.displayNone
       /\ UpdateState(d.state)
       /\ resizedSinceDetect' = (resizedSinceDetect /\ ~Measures)
       /\ UNCHANGED <<numTabs, tabWidth, containerWidth, tabListContainer,
                      tabHeaderElement, pipeline, lifecycle>>

\* ------------------------------------ initialize(), setupOverflowDetection()
\* the timer(0) of ngAfterViewInit fires (unless takeUntil(destroy$) has ended
\* it, or it has fired already), the two animation frames pass, the tab header
\* is found and the pipeline is subscribed; startWith(null) puts the first
\* event into the debounce.  takeUntil(destroy$) of a pipeline subscribed after
\* ngOnDestroy sees destroy$ complete without a value, and ends nothing
Initialize ==
  /\ ~tabHeaderElement
  /\ frameRequested \/ ~destroyed
  /\ frameRequested' = TRUE
  /\ tabHeaderElement' = TRUE
  /\ subscribed' = TRUE
  /\ pending' = TRUE
  /\ UNCHANGED <<dom, visibleTabIndices, maxVisibleTabs, isInitialized, timers,
                 prev, signals, resizedSinceDetect, menu, destroyed>>

\* distinctUntilChanged((prev, curr) => ...): TRUE when curr is dropped
NoPrev == [kind |-> "none", hasOverflow |-> FALSE, allTabs |-> 0, visibleTabs |-> 0]
NullResult == [kind |-> "null", hasOverflow |-> FALSE, allTabs |-> 0, visibleTabs |-> 0]
KeyOf(state) ==
  [kind |-> "state", hasOverflow |-> state.hasOverflow,
   allTabs |-> Len(state.allTabs), visibleTabs |-> Len(state.visibleTabs)]

SameAsPrevious(p, curr) ==
  IF p.kind = "null" \/ curr.kind = "null" THEN TRUE
  ELSE /\ p.hasOverflow = curr.hasOverflow
       /\ p.allTabs = curr.allTabs
       /\ p.visibleTabs = curr.visibleTabs

\* the debounce of the merged stream elapses: map, distinctUntilChanged,
\* subscribe
PipelineEmit ==
  /\ tabHeaderElement
  /\ pending
  /\ pending' = FALSE
  /\ IF isUpdating
     THEN /\ prev' = IF prev.kind = "none" THEN NullResult ELSE prev
          /\ UNCHANGED <<dom, internal, timers, signals, resizedSinceDetect, menu,
                         lifecycle>>
     ELSE
       \E d \in {DetectOverflow(tabHeaderElement, tabListContainer, numTabs, tabWidth,
                                 containerWidth, displayNone, visibleTabIndices,
                                 maxVisibleTabs, isInitialized)} :
       LET curr == KeyOf(d.state)
           emitted == prev.kind = "none" \/ ~SameAsPrevious(prev, curr)
       IN /\ visibleTabIndices' = d.visibleTabIndices
          /\ maxVisibleTabs' = d.maxVisibleTabs
          /\ isInitialized' = d.isInitialized
          /\ displayNone' = d.displayNone
          /\ prev' = IF emitted THEN curr ELSE prev
          /\ IF emitted
             THEN UpdateState(d.state)
             ELSE UNCHANGED <<timers, signals, menu>>
          /\ resizedSinceDetect' = (resizedSinceDetect /\ ~Measures)
          /\ UNCHANGED <<numTabs, tabWidth, containerWidth, tabListContainer,
                         tabHeaderElement, lifecycle>>

\* ------------------------------------------------------------- environment
\* the container gets another width and the window fires 'resize'
Resize(w) ==
  /\ containerWidth' = w
  /\ pending' = (pending \/ subscribed)
  /\ resizedSinceDetect' = (resizedSinceDetect \/ w # containerWidth)
  /\ UNCHANGED <<numTabs, tabWidth, displayNone, tabListContainer, internal,
                 timers, prev, signals, menu, lifecycle>>

\* the MutationObserver callback for a change of the tab links: dropped while
\* isUpdating, passed on to the debounced pipeline otherwise
MutationObserved == subscribed /\ ~isUpdating

\* the template adds a tab link after the last one
AddTab(w) ==
  /\ numTabs < MaxTabs
  /\ numTabs' = numTabs + 1
  /\ tabWidth' = Append(tabWidth, w)
  /\ displayNone' = Append(displayNone, FALSE)
  /\ pending' = (pending \/ MutationObserved)
  /\ UNCHANGED <<containerWidth, tabListContainer, internal, timers, prev, signals,
                 resizedSinceDetect, menu, lifecycle>>

RemoveAt(s, k) == SubSeq(s, 1, k - 1) \o SubSeq(s, k + 1, Len(s))

\* the template removes the k-th tab link: the links after it move up, each
\* with its width and its display style
RemoveTab(k) ==
  /\ numTabs' = numTabs - 1
  /\ tabWidth' = RemoveAt(tabWidth, k)
  /\ displayNone' = RemoveAt(displayNone, k)
  /\ pending' = (pending \/ MutationObserved)
  /\ UNCHANGED <<containerWidth, tabListContainer, internal, timers, prev, signals,
                 resizedSinceDetect, menu, lifecycle>>

\* the .mat-mdc-tab-list element leaves the tab header, or is put back: no
\* tab link is among the nodes of the mutation, so the observer passes nothing
TabListChange ==
  /\ tabListContainer' = ~tabListContainer
  /\ UNCHANGED <<numTabs, tabWidth, containerWidth, displayNone, internal, timers,
                 pipeline, signals, resizedSinceDetect, menu, lifecycle>>

\* --------------------------------------------------- OverflowMenuComponent
\* (the current version of the class, src/unnamed/part_001 lines 391-414)
\* the two signals of a component on which updateTabs() was not called
NoTabs == [visibleTabs |-> <<>>, hiddenTabs |-> <<>>]

\* updateTabs() with its two arguments taken for each other
UpdateTabsSwapped(visible, hidden) == [visibleTabs |-> hidden, hiddenTabs |-> visible]

\* updateTabs(visible, hidden): both signals are set
UpdateTabs(visible, hidden) == [visibleTabs |-> visible, hiddenTabs |-> hidden]

\* onTabSelect(index): tabSelected.emit(index) reaches the subscriber at once
Emit(received, index) == Append(received, index)

\* ----------------------------------------------- TabsOverflowMenuDirective
NoMenu(ref, instances) == [menuComponentRef |-> ref, menuInstances |-> instances]

\* showMenu() with createMenu() called whether or not there is a menu
ShowMenuAlwaysCreates(header, ref, instances) ==
  IF header
  THEN [menuComponentRef |-> TRUE, menuInstances |-> instances + 1]
  ELSE NoMenu(ref, instances)

\* showMenu(): createMenu() when there is no menu yet (createMenu returns
\* early without a tab header), then updateTabs()
ShowMenu(header, ref, instances) ==
  IF ~ref /\ header
  THEN [menuComponentRef |-> TRUE, menuInstances |-> instances + 1]
  ELSE NoMenu(ref, instances)

\* hideMenu() = destroyMenu()
HideMenu(ref, instances) ==
  IF ref
  THEN [menuComponentRef |-> FALSE, menuInstances |-> instances - 1]
  ELSE NoMenu(ref, instances)

\* showMenu(tabs): this.menuComponentRef.instance.updateTabs(tabs, [])
ShowMenuTabs(tabs) == UpdateTabs(tabs, <<>>)

\* the effect of the constructor: it runs once after construction and again
\* after a signal it has read is set to another value, until the directive is
\* destroyed and the effect with it.  A menu that is destroyed leaves no list
MenuEffect ==
  /\ effectDirty
  /\ effectDirty' = FALSE
  /\ ~destroyed
  /\ \E m \in {IF hasOverflow /\ Len(allTabs) > 0 /\ tabHeaderElement
               THEN ShowMenu(tabHeaderElement, menuComponentRef, menuInstances)
               ELSE HideMenu(menuComponentRef, menuInstances)} :
       /\ menuComponentRef' = m.menuComponentRef
       /\ menuInstances' = m.menuInstances
       /\ \E t \in {IF m.menuComponentRef THEN ShowMenuTabs(allTabs) ELSE NoTabs} :
            /\ menuVisibleTabs' = t.visibleTabs
            /\ menuHiddenTabs' = t.hiddenTabs
  /\ UNCHANGED <<dom, internal, timers, pipeline, signals, resizedSinceDetect,
                 menuSelection, selectedIndices, lifecycle>>

\* an item of the menu is activated: tabSelected emits its index, and the
\* subscription of createMenu() calls tabsOverflow.navigateToTab(index), which
\* clicks the tab link and touches nothing of the partition
MenuSelect(index) ==
  /\ menuComponentRef
  /\ menuSelection' = index
  /\ UNCHANGED <<dom, internal, timers, pipeline, signals, resizedSinceDetect,
                 effectDirty, menuComponentRef, menuInstances, component, lifecycle>>

\* ---------------------------------------------------------- ngOnDestroy()
\* the timer(0) of ngAfterViewInit fires and requests the animation frames
\* that end in initialize(): nothing of ngOnDestroy() cancels them
ViewInitTimer ==
  /\ ~frameRequested
  /\ ~destroyed
  /\ frameRequested' = TRUE
  /\ UNCHANGED <<dom, internal, timers, pipeline, signals, resizedSinceDetect, menu,
                 destroyed, subscribed>>

\* the view is destroyed: ngOnDestroy() of TabsOverflowDirective (destroy$
\* ends the subscriptions that are open, the MutationObserver is disconnected)
\* and of TabsOverflowMenuDirective (destroyMenu())
Destroy ==
  /\ ~destroyed
  /\ destroyed' = TRUE
  /\ subscribed' = FALSE
  /\ pending' = FALSE
  /\ \E m \in {HideMenu(menuComponentRef, menuInstances)} :
       /\ menuComponentRef' = m.menuComponentRef
       /\ menuInstances' = m.menuInstances
  /\ menuVisibleTabs' = NoTabs.visibleTabs
  /\ menuHiddenTabs' = NoTabs.hiddenTabs
  /\ UNCHANGED <<dom, internal, timers, prev, signals, resizedSinceDetect,
                 effectDirty, menuSelection, selectedIndices, frameRequested>>

\* ------------------------------------ OverflowMenuComponent, used on its own
\* a caller sets the lists of the component
UpdateTabsCall(visible, hidden) ==
  /\ \E t \in {UpdateTabs(visible, hidden)} :
       /\ menuVisibleTabs' = t.visibleTabs
       /\ menuHiddenTabs' = t.hiddenTabs
  /\ UNCHANGED <<dom, internal, timers, pipeline, signals, resizedSinceDetect,
                 effectDirty, menuComponentRef, menuInstances, menuSelection,
                 selectedIndices, lifecycle>>

\* a caller selects a tab; a subscriber of tabSelected collects the indices
OnTabSelect(index) ==
  /\ Len(selectedIndices) < MaxSelections
  /\ selectedIndices' = Emit(selectedIndices, index)
  /\ UNCHANGED <<dom, internal, timers, pipeline, signals, resizedSinceDetect,
                 effectDirty, menuComponentRef, menuInstances, menuSelection,
                 menuVisibleTabs, menuHiddenTabs, lifecycle>>

\* ----------------------------------------------------------- specification
\* The state after construction.  The tab links and their layout widths are
\* those of the template and stay as they are; the container width is the
\* one that changes afterwards.
\* the fields of the two directives after construction
InitDirectives ==
  /\ tabHeaderElement = FALSE
  /\ visibleTabIndices = <<>>
  /\ maxVisibleTabs = 0
  /\ isInitialized = FALSE
  /\ isUpdating = FALSE
  /\ pending = FALSE
  /\ prev = NoPrev
  /\ hasOverflow = FALSE
  /\ allTabs = <<>>
  /\ visibleTabs = <<>>
  /\ hiddenTabs = <<>>
  /\ resizedSinceDetect = FALSE
  /\ effectDirty = TRUE
  /\ menuComponentRef = FALSE
  /\ menuInstances = 0
  /\ menuSelection = 0 - 1
  /\ menuVisibleTabs = NoTabs.visibleTabs
  /\ menuHiddenTabs = NoTabs.hiddenTabs
  /\ selectedIndices = <<>>
  /\ destroyed = FALSE
  /\ frameRequested = FALSE
  /\ subscribed = FALSE

Init ==
  /\ numTabs \in 0..MaxTabs
  /\ tabWidth \in [1..numTabs -> TabWidths]
  /\ containerWidth \in ContainerWidths
  /\ displayNone = [k \in 1..numTabs |-> FALSE]
  /\ tabListContainer = TRUE
  /\ InitDirectives

Promote == \E i \in SelectedIndices(numTabs) : MakeTabVisible(i)
WindowResize == \E w \in ContainerWidths : Resize(w)

Next ==
  \/ Initialize
  \/ PipelineEmit
  \/ Promote
  \/ ResetUpdating
  \/ WindowResize

Spec == Init /\ [][Next]_vars

\* the directive in a template that adds and removes tab links
TabAdded == \E w \in TabWidths : AddTab(w)
TabRemoved == \E k \in 1..numTabs : RemoveTab(k)

\* makeTabVisible called with the index of a tab link that exists
PromoteTab == \E i \in 0..(numTabs - 1) : MakeTabVisible(i)

NextTabs ==
  \/ Initialize
  \/ PipelineEmit
  \/ PromoteTab
  \/ ResetUpdating
  \/ WindowResize
  \/ TabAdded
  \/ TabRemoved
  \/ TabListChange

SpecTabs == Init /\ [][NextTabs]_vars

\* the directive on a fixed set of tabs in a container that only gets
\* narrower, with no caller of makeTabVisible: a sequence of recomputes under
\* a decreasing available width
WindowShrink == \E w \in ContainerWidths : w <= containerWidth /\ Resize(w)

NextShrink ==
  \/ Initialize
  \/ PipelineEmit
  \/ ResetUpdating
  \/ WindowShrink

SpecShrink == Init /\ [][NextShrink]_vars

\* the directive on a fixed set of tabs whose callers pass makeTabVisible the
\* index of a tab that exists
NextValid ==
  \/ Initialize
  \/ PipelineEmit
  \/ PromoteTab
  \/ ResetUpdating
  \/ WindowResize

SpecValid == Init /\ [][NextValid]_vars

\* the directive in a container that only gets wider, with callers of
\* makeTabVisible
WindowGrow == \E w \in ContainerWidths : w >= containerWidth /\ Resize(w)

NextGrow ==
  \/ Initialize
  \/ PipelineEmit
  \/ PromoteTab
  \/ ResetUpdating
  \/ WindowGrow

\* on a bar of MaxTabs tabs whose last tab is wider than the others
InitWideTab ==
  /\ numTabs = MaxTabs
  /\ tabWidth = [k \in 1..numTabs |-> IF k = numTabs THEN MaxTabWidth + 1 ELSE 1]
  /\ containerWidth \in ContainerWidths
  /\ displayNone = [k \in 1..numTabs |-> FALSE]
  /\ tabListContainer = TRUE
  /\ InitDirectives

SpecWideTab == InitWideTab /\ [][NextGrow]_vars

\* the directive on a bar of one tab more than MaxTabs, all of one width
InitLongBar ==
  /\ numTabs = MaxTabs + 1
  /\ tabWidth = [k \in 1..numTabs |-> 1]
  /\ containerWidth \in ContainerWidths
  /\ displayNone = [k \in 1..numTabs |-> FALSE]
  /\ tabListContainer = TRUE
  /\ InitDirectives

SpecLongBar == InitLongBar /\ [][Next]_vars

\* TabsOverflowMenuDirective with TabsOverflowDirective as its host directive,
\* on a tab bar of tabs of one width that come and go.  makeTabVisible has no
\* caller there: the menu's items are the tabs of its two lists
InitMenu == Init /\ \A k \in 1..numTabs : tabWidth[k] = 1
UnitTabAdded == AddTab(1)
MenuItemActivated ==
  \E k \in 1..Len(menuVisibleTabs \o menuHiddenTabs) :
     MenuSelect((menuVisibleTabs \o menuHiddenTabs)[k])

NextMenu ==
  \/ Initialize
  \/ PipelineEmit
  \/ ResetUpdating
  \/ WindowResize
  \/ UnitTabAdded
  \/ TabRemoved
  \/ MenuEffect
  \/ MenuItemActivated

SpecMenu == InitMenu /\ [][NextMenu]_vars

\* the two directives from ngAfterViewInit to the destruction of their view
\* and after it, on a tab bar of tabs of one width that come and go: the
\* window and the template go on firing events
NextDestroy ==
  \/ ViewInitTimer
  \/ Initialize
  \/ PipelineEmit
  \/ ResetUpdating
  \/ WindowResize
  \/ UnitTabAdded
  \/ TabRemoved
  \/ MenuEffect
  \/ Destroy

SpecDestroy == InitMenu /\ [][NextDestroy]_vars

\* OverflowMenuComponent on its own (as its tests create it), with callers of
\* updateTabs() and onTabSelect() and a subscriber of tabSelected.  The lists
\* passed are the first tabs or the last tabs of a tab bar
TabLists ==
  {SubSeq(TabInfos(MaxTabs), 1, j) : j \in 0..MaxTabs}
  \cup {SubSeq(TabInfos(MaxTabs), i, MaxTabs) : i \in 1..MaxTabs}

InitComponent ==
  /\ numTabs = 0
  /\ tabWidth = <<>>
  /\ containerWidth = 0
  /\ displayNone = <<>>
  /\ tabListContainer = TRUE
  /\ InitDirectives

UpdateTabsCalled == \E a, b \in TabLists : UpdateTabsCall(a, b)
TabSelectCalled == \E i \in 0..(MaxTabs - 1) : OnTabSelect(i)

NextComponent ==
  \/ UpdateTabsCalled
  \/ TabSelectCalled

SpecComponent == InitComponent /\ [][NextComponent]_vars

\* ================================================================== claims
Range(s) == {s[k] : k \in 1..Len(s)}
NoDuplicates(s) == \A a, b \in 1..Len(s) : s[a] = s[b] => a = b
StrictlyAscending(s) == \A a, b \in 1..Len(s) : a < b => s[a] < s[b]

\* the layout width of the tabs of a sequence of indices (tabs that exist)
RECURSIVE LayoutWidth(_, _)
LayoutWidth(widths, s) ==
  IF s = <<>> THEN 0
  ELSE (IF FindTab(Len(widths), Head(s)) THEN widths[Head(s) + 1] ELSE 0)
       + LayoutWidth(widths, Tail(s))

UsableWidth(cw) == cw - menuButtonWidth

\* a step of makeTabVisible(i) past the early return (it ends in updateState
\* and leaves the pipeline alone)
PromoteStep(i) ==
  /\ ~Includes(visibleTabIndices, i)
  /\ isUpdating'
  /\ UNCHANGED <<pipeline, containerWidth>>
  /\ MakeTabVisible(i)
\* a step of the pipeline in which detectOverflow() runs and measures
RecomputeStep ==
  ~isUpdating /\ tabListContainer /\ numTabs > 0 /\ pending /\ ~pending' /\ PipelineEmit

\* C1: the published partition is complete and disjoint: every tab of allTabs
\* is in exactly one of visibleTabs and hiddenTabs, neither list repeats an
\* index, and the two lengths add up to the length of allTabs.
C1_PartitionComplete ==
  /\ Range(visibleTabs) \cup Range(hiddenTabs) = Range(allTabs)
  /\ Range(visibleTabs) \cap Range(hiddenTabs) = {}
  /\ NoDuplicates(visibleTabs)
  /\ NoDuplicates(hiddenTabs)
  /\ Len(visibleTabs) + Len(hiddenTabs) = Len(allTabs)

\* a partition published by a promote, with tabs on both sides
C1_Witness ==
  /\ Len(allTabs) = MaxTabs
  /\ hiddenTabs # <<>>
  /\ Len(visibleTabs) >= 2
  /\ visibleTabs # SubSeq(allTabs, 1, Len(visibleTabs))

\* C2: whenever a partition of a non-empty tab set has been published (by a
\* recompute or by a promote), at least one tab is visible.
C2_AtLeastOneVisible == allTabs # <<>> => Len(visibleTabs) >= 1

\* C3: the indices of the published visibleTabs are strictly ascending.
C3_VisibleAscending == StrictlyAscending(visibleTabs)

\* visibleTabIndices itself is out of order, and two tabs are published
C3_Witness ==
  /\ ~StrictlyAscending(visibleTabIndices)
  /\ Len(visibleTabs) >= 2

\* C4: after every recompute and every promote (of the index of a tab) the
\* layout widths of the visible tabs add up to at most the usable width,
\* unless exactly one tab is visible.
C4_VisibleTabsFit ==
  [][(RecomputeStep \/ \E i \in 0..(numTabs - 1) :
                          tabHeaderElement /\ PromoteStep(i))
     => \/ Len(visibleTabs') = 1
        \/ LayoutWidth(tabWidth', visibleTabs') <= UsableWidth(containerWidth')]_vars

\* C5: makeTabVisible(i) of a tab i of hiddenTabs leaves i in visibleTabs and
\* not in hiddenTabs.
C5_PromotedTabVisible ==
  [][\A i \in 0..(numTabs - 1) :
       (Includes(hiddenTabs, i) /\ PromoteStep(i))
       => (Includes(visibleTabs', i) /\ ~Includes(hiddenTabs', i))]_vars

\* C6: makeTabVisible(i) with i already in visibleTabIndices leaves
\* visibleTabIndices, maxVisibleTabs, hasOverflow, visibleTabs and hiddenTabs
\* unchanged.
C6_PromoteVisibleIsNoOp ==
  [][\A i \in SelectedIndices(numTabs) :
       (Includes(visibleTabIndices, i) /\ MakeTabVisible(i))
       => UNCHANGED <<visibleTabIndices, maxVisibleTabs, hasOverflow,
                      visibleTabs, hiddenTabs>>]_vars

\* the only tab there is, visible: makeTabVisible(0) is the no-op
C6_Witness ==
  /\ numTabs = 1
  /\ isInitialized
  /\ Includes(visibleTabIndices, 0)
  /\ visibleTabs = <<0>>

\* C7: once a partition is computed, makeTabVisible(i) with i the index of no
\* tab leaves visibleTabs, hiddenTabs and hasOverflow unchanged.
C7_InvalidIndexRejected ==
  [][\A i \in SelectedIndices(numTabs) :
       (isInitialized /\ ~FindTab(numTabs, i) /\ PromoteStep(i))
       => UNCHANGED <<hasOverflow, visibleTabs, hiddenTabs>>]_vars

\* C8: makeTabVisible(i) of a hidden tab i puts i in the place of the last
\* element of visibleTabIndices; when the new set fits, the visible tabs are
\* the old ones without the last, plus i, and the tab evicted is hidden.
C8_PromoteReplacesLast ==
  [][(tabHeaderElement /\ isInitialized /\ visibleTabIndices # <<>>
      /\ isUpdating' /\ UNCHANGED <<pipeline, containerWidth>>)
     => \A i \in 0..(numTabs - 1) :
          LET last == visibleTabIndices[Len(visibleTabIndices)]
              kept == Range(visibleTabIndices) \ {last}
          IN (/\ PromoteStep(i)
              /\ LayoutWidth(tabWidth, Append(Pop(visibleTabIndices), i))
                   <= UsableWidth(containerWidth))
             => /\ Range(visibleTabIndices') = kept \cup {i}
                /\ visibleTabIndices'[Len(visibleTabIndices')] = i
                /\ Range(visibleTabs') = (kept \cup {i}) \cap (0..(numTabs - 1))
                /\ FindTab(numTabs, last) => Includes(hiddenTabs', last)]_vars

\* visible=[0,1], promote 2: visible=[0,2], hidden=[1], and it fits
C8_Witness ==
  /\ visibleTabIndices = <<0, 2>>
  /\ visibleTabs = <<0, 2>>
  /\ hiddenTabs = <<1>>
  /\ LayoutWidth(tabWidth, visibleTabs) <= UsableWidth(containerWidth)

\* the number of tabs of the longest prefix whose layout width fits
LongestFittingPrefix(widths, usable) ==
  Cardinality({j \in 1..Len(widths) :
                 LayoutWidth(widths, TabInfos(j)) <= usable})

\* C9: the first computation makes visible (visibleTabIndices, and the display
\* style of each tab) exactly the longest prefix of the tabs whose cumulative
\* width is at most the usable width, or tab 0 alone when that prefix is empty.
C9_ColdStartPrefix ==
  [][(~isInitialized /\ isInitialized')
     => LET count == Max(1, LongestFittingPrefix(tabWidth,
                                                 UsableWidth(containerWidth)))
        IN /\ visibleTabIndices' = TabInfos(Min(count, numTabs))
           /\ maxVisibleTabs' = count
           /\ displayNone' = [k \in 1..numTabs |-> k > count]]_vars

\* the prefix stops at tab 1 although the narrower tab 2 would still fit
C9_Witness ==
  /\ isInitialized
  /\ numTabs = 3
  /\ visibleTabIndices = <<0>>
  /\ displayNone = <<FALSE, TRUE, TRUE>>
  /\ ~resizedSinceDetect
  /\ tabWidth[1] + tabWidth[2] > UsableWidth(containerWidth)
  /\ tabWidth[1] + tabWidth[3] <= UsableWidth(containerWidth)

\* C10: a recompute with the widths as the previous computation measured
\* them yields the partition that was there before it.
C10_RecomputeStable ==
  [][(RecomputeStep /\ isInitialized /\ ~resizedSinceDetect)
     => UNCHANGED <<visibleTabIndices, visibleTabs, hiddenTabs>>]_vars

\* the longest prefix of a sequence of indices whose layout width fits, or its
\* first element alone when no prefix fits
LongestFittingPrefixOf(widths, s, usable) ==
  LET fit == {j \in 1..Len(s) : LayoutWidth(widths, SubSeq(s, 1, j)) <= usable}
  IN IF fit = {} THEN SubSeq(s, 1, 1)
     ELSE SubSeq(s, 1, CHOOSE j \in fit : \A k \in fit : k <= j)

\* C11: a recompute after the first one leaves in visibleTabIndices the longest
\* prefix of the old visibleTabIndices that fits the usable width, or its first
\* element alone, and displays exactly the tabs of that prefix.
C11_EvictFromEnd ==
  [][(RecomputeStep /\ isInitialized)
     => /\ visibleTabIndices' =
             LongestFittingPrefixOf(tabWidth, visibleTabIndices,
                                    UsableWidth(containerWidth))
        /\ displayNone' =
             [k \in 1..numTabs |-> ~Includes(visibleTabIndices', k - 1)]]_vars

\* tab 2 was taken from the end of visible=[0,2], which did not fit, and the
\* eviction went no further: tab 1, which would fit next to tab 0, is hidden
C11_Witness ==
  /\ isInitialized
  /\ ~resizedSinceDetect
  /\ ~pending
  /\ visibleTabIndices = <<0>>
  /\ visibleTabs = <<0>>
  /\ hiddenTabs = <<1, 2>>
  /\ LayoutWidth(tabWidth, <<0, 1>>) < LayoutWidth(tabWidth, <<0, 2>>)
  /\ LayoutWidth(tabWidth, <<0, 1>>) <= UsableWidth(containerWidth)

\* C12: with the tabs and their widths fixed and the container only getting
\* narrower, every recompute leaves at least one tab visible, and no more tabs
\* visible than before it (in visibleTabIndices and in the published
\* visibleTabs).
C12_ShrinkNonIncreasing ==
  [][RecomputeStep
     => /\ Len(visibleTabIndices') >= 1
        /\ isInitialized => Len(visibleTabIndices') <= Len(visibleTabIndices)
        /\ Len(visibleTabs') >= 1
        /\ visibleTabs # <<>> => Len(visibleTabs') <= Len(visibleTabs)]_vars

\* the lower bound: not even tab 0 fits the width the container has come down
\* to, and tab 0 is the one tab visible
C12_Witness ==
  /\ isInitialized
  /\ ~resizedSinceDetect
  /\ numTabs = MaxTabs
  /\ visibleTabs = <<0>>
  /\ visibleTabIndices = <<0>>
  /\ prev.visibleTabs = 1
  /\ LayoutWidth(tabWidth, <<0>>) > UsableWidth(containerWidth)

C14_OverflowIffHidden ==
  /\ hasOverflow <=> hiddenTabs # <<>>
  /\ hasOverflow => Len(visibleTabs) < Len(allTabs)

\* C15: makeTabVisible(i) of a tab i of hiddenTabs, in an overflowing partition
\* and with the container as the last computation measured it, changes the
\* number of visible tabs by at most 1 and leaves hasOverflow true.
C15_PromoteStaysOverflowing ==
  [][\A i \in 0..(numTabs - 1) :
       (/\ tabHeaderElement
        /\ isInitialized
        /\ hasOverflow
        /\ ~resizedSinceDetect
        /\ Includes(hiddenTabs, i)
        /\ PromoteStep(i))
       => /\ hasOverflow'
          /\ Len(visibleTabs') - Len(visibleTabs) \in {0 - 1, 0, 1}]_vars

\* C16: a recompute that finds no tab-list container to measure leaves the
\* partition an earlier recompute published (allTabs, visibleTabs, hiddenTabs,
\* hasOverflow) as it was.
C16_UnmeasurableIsNoOp ==
  [][(/\ ~isUpdating
      /\ ~tabListContainer
      /\ prev.kind = "state"
      /\ pending
      /\ ~pending'
      /\ PipelineEmit)
     => UNCHANGED signals]_vars

\* C17: after tabs were added or removed, a recompute that publishes leaves at
\* least one tab visible when there is a tab, and visibleTabs and hiddenTabs
\* together are exactly the tabs there are now, each in one of the two.
C17_TabChangeKeepsPartition ==
  [][(RecomputeStep /\ isInitialized /\ isUpdating')
     => /\ Len(visibleTabs') >= 1
        /\ Range(visibleTabs') \cup Range(hiddenTabs') = 0..(numTabs - 1)
        /\ Range(visibleTabs') \cap Range(hiddenTabs') = {}]_vars

\* C18: a recompute that finds no tab link yields the empty partition: it
\* publishes allTabs, visibleTabs and hiddenTabs empty and hasOverflow false,
\* or publishes nothing because the value the pipeline compares with is that
\* of an empty partition already (or null); the fields of the directive stay.
C18_ZeroTabsEmptyPartition ==
  [][(/\ ~isUpdating
      /\ numTabs = 0
      /\ pending
      /\ ~pending'
      /\ PipelineEmit)
     => /\ \/ /\ allTabs' = <<>>
              /\ visibleTabs' = <<>>
              /\ hiddenTabs' = <<>>
              /\ ~hasOverflow'
              /\ prev' = KeyOf(EmptyState)
           \/ /\ UNCHANGED signals
              /\ prev.kind = "null" \/ prev = KeyOf(EmptyState)
        /\ UNCHANGED <<visibleTabIndices, maxVisibleTabs, isInitialized>>]_vars

\* there were tabs, they were partitioned, they are gone, and the last
\* value the pipeline published is the empty partition
C18_Witness ==
  /\ numTabs = 0
  /\ isInitialized
  /\ ~pending
  /\ prev.kind = "state"
  /\ prev.allTabs = 0
  /\ allTabs = <<>>

\* C19: when an item of the overflow menu is activated for a tab of hiddenTabs,
\* the tab is promoted: it is in visibleTabs and no longer in hiddenTabs.
C19_MenuSelectPromotes ==
  [][\A i \in 0..(numTabs - 1) :
       (Includes(hiddenTabs, i) /\ menuSelection' = i /\ MenuSelect(i))
       => (Includes(visibleTabs', i) /\ ~Includes(hiddenTabs', i))]_vars

\* C20: once the effect has run for the current signals, there is a menu
\* component exactly when hasOverflow is true and allTabs is not empty; at any
\* time at most one instance is alive, the one menuComponentRef holds.
C20_MenuIffOverflow ==
  /\ ~effectDirty => (menuComponentRef <=> (hasOverflow /\ allTabs # <<>>))
  /\ menuInstances = (IF menuComponentRef THEN 1 ELSE 0)

\* overflow has ended and the effect has destroyed the menu, of which an item
\* had been activated
C20_Witness ==
  /\ ~effectDirty
  /\ isInitialized
  /\ numTabs > 0
  /\ allTabs # <<>>
  /\ ~hasOverflow
  /\ menuSelection >= 0
  /\ ~menuComponentRef
  /\ menuInstances = 0

\* C21: whenever the overflow menu is shown and the effect has run for the
\* current signals, the hidden list of the menu is hiddenTabs and its other
\* list is visibleTabs.
C21_MenuListsArePartition ==
  (menuComponentRef /\ ~effectDirty)
  => (menuHiddenTabs = hiddenTabs /\ menuVisibleTabs = visibleTabs)

\* the pipeline is subscribed and holds no event: nothing is recomputed before
\* the next resize or mutation event
PipelineIdle == subscribed /\ ~destroyed /\ ~pending

C23_GrowNonDecreasing ==
  [][(RecomputeStep /\ isInitialized /\ resizedSinceDetect)
     => /\ Len(visibleTabIndices') >= Len(visibleTabIndices)
        /\ Len(visibleTabs') >= Len(visibleTabs)
        /\ Len(hiddenTabs') <= Len(hiddenTabs)]_vars

C25_DestroyedIsFinal ==
  [][/\ destroyed' => ~menuComponentRef'
     /\ destroyed => UNCHANGED signals]_vars

\* C26: OverflowMenuComponent starts with both lists empty; updateTabs(a, b)
\* leaves the lists equal to a and b, whatever they were; onTabSelect(i) adds
\* exactly one event carrying i after the events emitted so far, and neither
\* touches what the other sets.
C26_ComponentContract ==
  /\ menuVisibleTabs = <<>> /\ menuHiddenTabs = <<>>
  /\ [][/\ \A a, b \in TabLists :
             UpdateTabsCall(a, b)
             => /\ menuVisibleTabs' = a
                /\ menuHiddenTabs' = b
                /\ selectedIndices' = selectedIndices
        /\ \A i \in 0..(MaxTabs - 1) :
             OnTabSelect(i)
             => /\ selectedIndices' = selectedIndices \o <<i>>
                /\ menuVisibleTabs' = menuVisibleTabs
                /\ menuHiddenTabs' = menuHiddenTabs]_vars

\* two calls of updateTabs and two selections later: the lists are those of
\* the second call, the events are in the order of the calls
C26_Witness ==
  /\ menuVisibleTabs = <<0>>
  /\ menuHiddenTabs = <<1, 2>>
  /\ selectedIndices = <<2, 0>>

\* the tabs whose element is displayed
Displayed == {k \in 0..(numTabs - 1) : ~displayNone[k + 1]}

\* C27: a recompute after the first computation adds no tab: the indices of
\* visibleTabIndices, the tabs displayed and the tabs of the published
\* visibleTabs after it are among those before it.
C27_RecomputeAddsNoTab ==
  [][(RecomputeStep /\ isInitialized)
     => /\ Range(visibleTabIndices') \subseteq Range(visibleTabIndices)
        /\ Displayed' \subseteq Displayed
        /\ Range(visibleTabs') \subseteq Range(visibleTabs)]_vars

\* the container has grown to hold every tab and was recomputed: tabs 1 and 2
\* stay hidden
C27_Witness ==
  /\ isInitialized
  /\ ~resizedSinceDetect
  /\ ~pending
  /\ prev.kind = "state"
  /\ numTabs = MaxTabs
  /\ visibleTabIndices = <<0>>
  /\ visibleTabs = <<0>>
  /\ Displayed = {0}
  /\ LayoutWidth(tabWidth, TabInfos(numTabs)) <= UsableWidth(containerWidth)

\* C28: visibleTabIndices never holds an index twice and is always in
\* ascending order; and makeTabVisible(i) of a tab i that is not visible, with
\* the container as the last computation measured it, keeps every index of
\* visibleTabIndices but the last one: those tabs stay in visibleTabIndices,
\* displayed, and in the published visibleTabs.
C28_PromoteKeepsOthers ==
  [][/\ NoDuplicates(visibleTabIndices')
     /\ StrictlyAscending(visibleTabIndices')
     /\ \A i \in 0..(numTabs - 1) :
          (/\ tabHeaderElement
           /\ isInitialized
           /\ ~resizedSinceDetect
           /\ PromoteStep(i))
          => \A t \in Range(Pop(visibleTabIndices)) :
               /\ Includes(visibleTabIndices', t)
               /\ t \in Displayed'
               /\ Includes(visibleTabs', t)]_vars

\* tab 2 has taken the last slot of visible=[0,1]: tab 0 is still visible
C28_Witness ==
  /\ isInitialized
  /\ isUpdating
  /\ ~resizedSinceDetect
  /\ numTabs = MaxTabs
  /\ visibleTabIndices = <<0, 2>>
  /\ Displayed = {0, 2}
  /\ hiddenTabs = <<1>>

PublishedKey ==
  KeyOf([hasOverflow |-> hasOverflow, allTabs |-> allTabs, visibleTabs |-> visibleTabs])

====
